---- MODULE Spec2Model ----
(***************************************************************************)
(* A model of the resampling and generation-simulation core of gss.py:     *)
(* Survey (membership, cached CDF, resampling), the conditional tables,    *)
(* TransitionModel2 / Respondent.make_child, TransitionModel and the       *)
(* Cohort / Generation engine.                                             *)
(*                                                                         *)
(* Probabilities are exact rationals: a Pmf is a map d of numerators over  *)
(* one denominator den, so that Prob(x) = d[x] / den.  A uniform draw is   *)
(* represented by the running-sum breakpoint it falls under (0 for a draw  *)
(* of exactly 0), which determines the value an inverse-CDF lookup returns.*)
(***************************************************************************)
EXTENDS Integers, Sequences, FiniteSets, TLC

(***************************************************************************)
(* Bounds of the model.                                                    *)
(***************************************************************************)
\* largest number of entries of an input survey
MaxPop == 2
\* largest number of identifiers handed out by get_next_id in one process
MaxIds == 3
\* the longest projection, in years after the start year
MaxSpan == 1
\* largest number of trials whose outcomes are aggregated
MaxTrials == 3

(***************************************************************************)
(* Program constants.                                                      *)
(***************************************************************************)
\* the 'NA' sentinel, for the integer-valued attribute yrborn / decade
NAyr == 0
\* the 'NA' sentinel of the categorical attributes
NA == "NA"
\* ORDER, the names every table has a cell for
ORDER == <<"prot", "cath", "jew", "other", "none">>
\* first identifier handed out by Respondent.get_next_id
FirstId == 90000
\* default start_year of plot_simulation_predictions
StartYear == 1988

Names == {ORDER[i] : i \in 1..Len(ORDER)}

\* natural (alphabetical) order of the names, as sorted() orders them
NameRank(x) ==
    CASE x = "cath" -> 1 [] x = "jew" -> 2 [] x = "none" -> 3
      [] x = "other" -> 4 [] x = "prot" -> 5 [] OTHER -> 6

(***************************************************************************)
(* Exact rationals <<n, d>> with d > 0.                                    *)
(***************************************************************************)
RAdd(a, b) == <<a[1] * b[2] + b[1] * a[2], a[2] * b[2]>>
RLeq(a, b) == a[1] * b[2] <= b[1] * a[2]
REq(a, b) == a[1] * b[2] = b[1] * a[2]
RPos(a) == a[1] > 0

RECURSIVE SumOver(_, _)
\* sum of f[x] over the finite set S
SumOver(f, S) ==
    IF S = {} THEN 0
    ELSE LET x == CHOOSE y \in S : TRUE IN f[x] + SumOver(f, S \ {x})

(***************************************************************************)
(* Pmf: Incr, Total, Normalize, Prob.                                      *)
(***************************************************************************)
EmptyPmf == [d |-> [x \in {} |-> 0], den |-> 1]
PmfTotalNum(pmf) == SumOver(pmf.d, DOMAIN pmf.d)
\* Prob(x, default=0) as a rational
PmfProb(pmf, x) == IF x \in DOMAIN pmf.d THEN <<pmf.d[x], pmf.den>> ELSE <<0, 1>>
\* Normalize(): defined only when the total is not zero
PmfNormalize(pmf) == [d |-> pmf.d, den |-> PmfTotalNum(pmf)]
\* two Pmfs give every value the same probability
PmfEq(p, q) ==
    \A x \in (DOMAIN p.d) \cup (DOMAIN q.d) : REq(PmfProb(p, x), PmfProb(q, x))

(***************************************************************************)
(* Cdf: MakeCdfFromItems, Value, Random, Sample.                           *)
(* A Cdf is [xs, cs]: the values in sorted order and their running sums.   *)
(***************************************************************************)
RECURSIVE SortedSeq(_)
\* the elements of a finite set of integers, ascending (sorted(items))
SortedSeq(S) ==
    IF S = {} THEN <<>>
    ELSE LET m == CHOOSE x \in S : \A y \in S : x <= y
         IN <<m>> \o SortedSeq(S \ {m})

RECURSIVE RunSums(_, _, _)
\* running sums of the weights w over the sequence xs, starting from acc
RunSums(xs, w, acc) ==
    IF xs = <<>> THEN <<>>
    ELSE LET s == RAdd(acc, w[Head(xs)])
         IN <<s>> \o RunSums(Tail(xs), w, s)

\* MakeCdfFromItems(items): items maps each value to its rational weight.
\* The running sums are divided by the total: a total of 0 over a non-empty
\* list divides by zero.
MakeCdfFromItems(items) ==
    LET xs == SortedSeq(DOMAIN items)
        cs == RunSums(xs, items, <<0, 1>>)
    IN IF xs # <<>> /\ ~RPos(cs[Len(cs)])
       THEN [err |-> "ZeroDivisionError", xs |-> <<>>, cs |-> <<>>]
       ELSE [err |-> "none", xs |-> xs, cs |-> cs]

\* the draws that distinguish every outcome of Random(): exactly 0, and one
\* draw in each interval (cs[i-1], cs[i]] of the running sums
CdfDraws(cdf) == {<<0, 1>>} \cup {cdf.cs[i] : i \in 1..Len(cdf.cs)}

\* Value(u): the value at the first running sum >= u
CdfValue(cdf, u) ==
    cdf.xs[CHOOSE i \in 1..Len(cdf.xs) :
              /\ RLeq(u, cdf.cs[i])
              /\ \A j \in 1..(i - 1) : ~RLeq(u, cdf.cs[j])]

\* the values Random() can return
CdfRandomSet(cdf) ==
    IF cdf.xs = <<>> THEN {} ELSE {CdfValue(cdf, u) : u \in CdfDraws(cdf)}

\* Sample(n): every list of n values Random() can return, keyed 0..n-1 as
\* enumerate() keys them; sampling an empty Cdf fails
CdfSample(cdf, n) ==
    IF n > 0 /\ cdf.xs = <<>>
    THEN [err |-> "IndexError", ids |-> {}]
    ELSE [err |-> "none", ids |-> [0..(n - 1) -> CdfRandomSet(cdf)]]

(***************************************************************************)
(* Respondent.                                                             *)
(***************************************************************************)
\* decade of birth, as clean() and choose_upbringing compute it
Decade(yrborn) == (yrborn \div 10) * 10

\* a cleaned respondent read from the data
Respondent(caseid, compwt, year, yrborn, sex, relig, relig16, pa, ma) ==
    [caseid |-> caseid, compwt |-> compwt, year |-> year, yrborn |-> yrborn,
     decade |-> IF yrborn = NAyr THEN NAyr ELSE Decade(yrborn),
     sex |-> sex, relig_name |-> relig, relig16_name |-> relig16,
     parelig_name |-> pa, marelig_name |-> ma]

\* the records input surveys are drawn from
Pool ==
    { Respondent(1, 2, 1988, 1960, 1, "prot", "prot", "prot", "prot"),
      Respondent(2, 1, 1988, 1959, 2, "prot", "none", "none", "prot"),
      Respondent(3, 0, 1988, 1960, 1, "prot", "none", "prot", "none"),
      Respondent(FirstId, 1, 1988, NAyr, 2, "prot", NA, NA, NA),
      Respondent(5, 1, 2008, 1980, 2, NA, "prot", "none", "none"),
      Respondent(6, 1, 1988, 1961, 1, "none", "prot", "prot", "prot") }

\* get_next_id without the increment of the counter
get_next_id_stuck(t) == [caseid |-> t, t |-> t]

\* get_next_id: the identifier assigned, and the counter afterwards
get_next_id(t) == [caseid |-> t, t |-> t + 1]

(***************************************************************************)
(* Survey: a map from key to Respondent.                                   *)
(***************************************************************************)
EmptyRs == [k \in {} |-> 0]

\* the records of a survey (one per entry; respondents() yields the entries)
Records(rs) == {rs[k] : k \in DOMAIN rs}

\* add_respondent(r): self.rs[r.caseid] = r
add_respondent(rs, r) ==
    [k \in (DOMAIN rs) \cup {r.caseid} |-> IF k = r.caseid THEN r ELSE rs[k]]

\* lookup(caseid): self.rs[caseid]
lookup(rs, caseid) == rs[caseid]

RECURSIVE add_respondents(_, _)
\* add_respondents(rs): add_respondent for each record
add_respondents(rs, new) ==
    IF new = {} THEN rs
    ELSE LET r == CHOOSE x \in new : TRUE
         IN add_respondents(add_respondent(rs, r), new \ {r})

\* subsample(filter_func): dict of (r.caseid, r) over the entries that pass,
\* kept being the records filter_func accepts
subsample(rs, kept) == add_respondents(EmptyRs, Records(rs) \cap kept)

\* partition_by_attr(attr): a Survey per known value of attr
partition_by_attr(rs, attr) ==
    LET vals == {r[attr] : r \in {x \in Records(rs) : x[attr] # NAyr}}
    IN [v \in vals |->
          add_respondents(EmptyRs, {r \in Records(rs) : r[attr] = v})]

\* make_age_pmf(survey_year): weight by age over the entries with a known
\* birth year; Normalize() fails on a total of zero
make_age_pmf(rs, survey_year) ==
    LET known == {k \in DOMAIN rs : rs[k].yrborn # NAyr}
        ages == {survey_year - rs[k].yrborn : k \in known}
        pmf == [d |-> [a \in ages |->
                         SumOver([k \in known |-> rs[k].compwt],
                                 {k \in known : survey_year - rs[k].yrborn = a})],
                den |-> 1]
    IN IF PmfTotalNum(pmf) = 0
       THEN [err |-> "ValueError", pmf |-> EmptyPmf]
       ELSE [err |-> "none", pmf |-> PmfNormalize(pmf)]

\* make_cdf(): the Cdf over (key, compwt) of the current entries
make_cdf(rs) == MakeCdfFromItems([k \in DOMAIN rs |-> <<rs[k].compwt, 1>>])

\* resample_by_cdf keying the drawn records by caseid instead of by position
resample_by_cdf_by_caseid(rs, cdf, n) ==
    LET s == CdfSample(cdf, n)
    IN IF s.err # "none" THEN [err |-> s.err, out |-> {}]
       ELSE [err |-> "none",
             out |-> {add_respondents(EmptyRs, {rs[ids[i]] : i \in 0..(n - 1)}) :
                      ids \in s.ids}]

\* resample_by_cdf(cdf, n): the surveys Sample(n) can produce
resample_by_cdf(rs, cdf, n) ==
    LET s == CdfSample(cdf, n)
    IN IF s.err # "none" THEN [err |-> s.err, out |-> {}]
       ELSE [err |-> "none",
             out |-> {[i \in 0..(n - 1) |-> rs[ids[i]]] : ids \in s.ids}]

(***************************************************************************)
(* Tables.                                                                 *)
(***************************************************************************)
\* the Pmf of attr2 over the entries of rs with attr1 = x, both known,
\* weighted by compwt (the Incr calls of a table's construction loop)
CellOf(rs, attr1, attr2, x) ==
    LET ks == {k \in DOMAIN rs :
                 rs[k][attr1] = x /\ rs[k][attr1] # NA /\ rs[k][attr2] # NA}
        ys == {rs[k][attr2] : k \in ks}
    IN [d |-> [y \in ys |->
                 SumOver([k \in ks |-> rs[k].compwt],
                         {k \in ks : rs[k][attr2] = y})],
        den |-> 1]

\* a normalize_table that normalizes nothing
normalize_table_none(table) == table

\* normalize_table: Normalize() each Pmf whose Total() is not zero
normalize_table(table) ==
    [x \in DOMAIN table |->
       IF PmfTotalNum(table[x]) # 0 THEN PmfNormalize(table[x]) ELSE table[x]]

\* cross_tab(attr1, attr2): Table(table, hist); hist is incremented by compwt
cross_tab(rs, attr1, attr2) ==
    LET ks == {k \in DOMAIN rs : rs[k][attr1] # NA /\ rs[k][attr2] # NA}
        xs == {rs[k][attr1] : k \in ks}
    IN [table |-> normalize_table([x \in Names |-> CellOf(rs, attr1, attr2, x)]),
        hist |-> [x \in xs |->
                    SumOver([k \in ks |-> rs[k].compwt],
                            {k \in ks : rs[k][attr1] = x})]]

\* make_cross_tabs(surveys, attr1, attr2): one Table per key of surveys
make_cross_tabs(surveys, attr1, attr2) ==
    [y \in DOMAIN surveys |-> cross_tab(surveys[y], attr1, attr2)]

\* the values Pmf.Random() can return for a Pmf over names with a non-zero
\* total: an inverse-CDF draw over the names in sorted order
PmfRandomSet(pmf) ==
    LET cdf == MakeCdfFromItems(
                 [i \in {NameRank(x) : x \in DOMAIN pmf.d} |->
                    <<pmf.d[CHOOSE x \in DOMAIN pmf.d : NameRank(x) = i], pmf.den>>])
    IN {x \in DOMAIN pmf.d : NameRank(x) \in CdfRandomSet(cdf)}

\* a choose that answers an empty cell with the key itself
choose_or_key(tbl, key) ==
    IF key \notin DOMAIN tbl.table
    THEN {[err |-> "KeyError", val |-> NA]}
    ELSE IF PmfTotalNum(tbl.table[key]) = 0
    THEN {[err |-> "none", val |-> key]}
    ELSE {[err |-> "none", val |-> v] : v \in PmfRandomSet(tbl.table[key])}

\* Table.choose(key): EmptyPmfError when the Pmf at key has total 0
choose(tbl, key) ==
    IF key \notin DOMAIN tbl.table
    THEN {[err |-> "KeyError", val |-> NA]}
    ELSE IF PmfTotalNum(tbl.table[key]) = 0
    THEN {[err |-> "EmptyPmfError", val |-> NA]}
    ELSE {[err |-> "none", val |-> v] : v \in PmfRandomSet(tbl.table[key])}

(***************************************************************************)
(* BirthModel.                                                             *)
(***************************************************************************)
\* the birth models a run may be given: all_ages, and the hazard of each
\* age as yes / obs
BirthModels ==
    { [all_ages |-> {20, 21}, yes |-> (20 :> 1) @@ (21 :> 1), obs |-> 4],
      [all_ages |-> {20, 21}, yes |-> (20 :> 0) @@ (21 :> 2), obs |-> 4] }

\* the length of the hazard table, np.zeros(shape=(90))
TableLen == 90

\* table[age] for an index within the array: the hazard yes / obs of an
\* observed age, and the 0 the array was made with for any other
TableAt(bm, i) == IF i \in bm.all_ages THEN <<bm.yes[i], bm.obs>> ELSE <<0, 1>>

\* prob(age): self.table[age]; an index from -90 to -1 counts from the end
\* of the array, any other index outside 0..89 is an IndexError
prob(bm, age) ==
    IF age \in 0..(TableLen - 1)
    THEN [err |-> "none", val |-> TableAt(bm, age)]
    ELSE IF age \in (0 - TableLen)..(0 - 1)
    THEN [err |-> "none", val |-> TableAt(bm, TableLen + age)]
    ELSE [err |-> "IndexError", val |-> <<0, 1>>]

\* get_pmf(): the hazard of each observed age, normalized
get_pmf(bm) == PmfNormalize([d |-> [a \in bm.all_ages |-> bm.yes[a]], den |-> bm.obs])

\* a random_age that can also return the age after the last observed one
random_age_past_observed(bm) ==
    bm.all_ages \cup {1 + CHOOSE a \in bm.all_ages : \A b \in bm.all_ages : b <= a}

\* random_age(): the ages age_cdf.Random() can return
random_age(bm) ==
    LET pmf == get_pmf(bm)
    IN CdfRandomSet(MakeCdfFromItems([a \in DOMAIN pmf.d |-> <<pmf.d[a], pmf.den>>]))

(***************************************************************************)
(* TransitionModel2.                                                       *)
(***************************************************************************)
\* TransitionModel2(survey, decade_flag)
TransitionModel2(rs, decade_flag) ==
    LET surveys == partition_by_attr(rs, "decade")
    IN [decade_flag |-> decade_flag,
        up_table |-> cross_tab(rs, "parelig_name", "relig16_name"),
        trans_table |-> cross_tab(rs, "relig16_name", "relig_name"),
        up_tables |-> make_cross_tabs(surveys, "parelig_name", "relig16_name"),
        trans_tables |-> make_cross_tabs(surveys, "relig16_name", "relig_name")]

\* an extend_tables that keeps the table a decade already has
extend_tables_missing_only(tables, source_year, dest_years) ==
    IF source_year \notin DOMAIN tables
    THEN [err |-> "KeyError", tables |-> tables]
    ELSE [err |-> "none",
          tables |-> [y \in (DOMAIN tables) \cup dest_years |->
                        IF y \in DOMAIN tables THEN tables[y]
                        ELSE tables[source_year]]]

\* an extend_tables that copies from the earliest decade when source_year
\* has no table
extend_tables_from_any(tables, source_year, dest_years) ==
    LET src == IF source_year \in DOMAIN tables \/ DOMAIN tables = {}
               THEN source_year
               ELSE CHOOSE d \in DOMAIN tables :
                       \A e \in DOMAIN tables : d <= e
    IN IF src \notin DOMAIN tables
       THEN [err |-> "KeyError", tables |-> tables]
       ELSE [err |-> "none",
             tables |-> [y \in (DOMAIN tables) \cup dest_years |->
                           IF y \in dest_years THEN tables[src]
                           ELSE tables[y]]]

\* extend_tables: tables[dest_year] = tables[source_year] for each dest_year;
\* a source_year without a table is a KeyError
extend_tables(tables, source_year, dest_years) ==
    IF source_year \notin DOMAIN tables
    THEN [err |-> "KeyError", tables |-> tables]
    ELSE [err |-> "none",
          tables |-> [y \in (DOMAIN tables) \cup dest_years |->
                        IF y \in dest_years THEN tables[source_year]
                        ELSE tables[y]]]

\* a decade lookup that falls back to another decade's table
decade_table_or_other(tables, yrborn) ==
    IF Decade(yrborn) \in DOMAIN tables
    THEN [err |-> "none", table |-> tables[Decade(yrborn)]]
    ELSE IF DOMAIN tables # {}
    THEN [err |-> "none", table |-> tables[CHOOSE d \in DOMAIN tables : TRUE]]
    ELSE [err |-> "KeyError", table |-> cross_tab(EmptyRs, "caseid", "caseid")]

\* decade = int(yrborn/10) * 10; table = tables[decade]: a decade without a
\* table is a KeyError
decade_table(tables, yrborn) ==
    IF Decade(yrborn) \in DOMAIN tables
    THEN [err |-> "none", table |-> tables[Decade(yrborn)]]
    ELSE [err |-> "KeyError", table |-> cross_tab(EmptyRs, "caseid", "caseid")]

\* choose_upbringing(yrborn, relig_name): the decade's table, and the pooled
\* table when the decade's cell is empty
choose_upbringing(tm, yrborn, relig_name) ==
    IF tm.decade_flag
    THEN LET t == decade_table(tm.up_tables, yrborn)
         IN IF t.err # "none"
            THEN {[err |-> t.err, val |-> NA]}
            ELSE UNION {IF o.err = "EmptyPmfError"
                        THEN choose(tm.up_table, relig_name)
                        ELSE {o} :
                        o \in choose(t.table, relig_name)}
    ELSE choose(tm.up_table, relig_name)

\* a choose_transmission that retries on the pooled table
choose_transmission_or_pooled(tm, yrborn, relig_name) ==
    IF tm.decade_flag
    THEN LET t == decade_table(tm.trans_tables, yrborn)
         IN IF t.err # "none"
            THEN {[err |-> t.err, val |-> NA]}
            ELSE UNION {IF o.err = "EmptyPmfError"
                        THEN choose(tm.trans_table, relig_name)
                        ELSE {o} :
                        o \in choose(t.table, relig_name)}
    ELSE choose(tm.trans_table, relig_name)

\* choose_transmission(yrborn, relig_name)
choose_transmission(tm, yrborn, relig_name) ==
    IF tm.decade_flag
    THEN LET t == decade_table(tm.trans_tables, yrborn)
         IN IF t.err # "none"
            THEN {[err |-> t.err, val |-> NA]}
            ELSE choose(t.table, relig_name)
    ELSE choose(tm.trans_table, relig_name)

\* the child record make_child builds
Child(parent, caseid, yrborn, relig16, relig) ==
    [parent |-> parent.caseid, caseid |-> caseid, compwt |-> parent.compwt,
     yrborn |-> yrborn, relig16_name |-> relig16, relig_name |-> relig]

\* make_child(yrborn, trans_model), with t the identifier counter: the
\* outcomes [err, child, t].  The identifier is taken before the tables
\* are consulted.
make_child(parent, yrborn, tm, t) ==
    LET id == get_next_id(t)
    IN UNION {
         IF u.err # "none"
         THEN {[err |-> u.err, t |-> id.t,
                child |-> Child(parent, id.caseid, yrborn, NA, NA)]}
         ELSE {[err |-> r.err, t |-> id.t,
                child |-> Child(parent, id.caseid, yrborn, u.val, r.val)] :
               r \in choose_transmission(tm, yrborn, u.val)} :
         u \in choose_upbringing(tm, yrborn, parent.relig_name)}

(***************************************************************************)
(* Cohort and Generation.                                                  *)
(***************************************************************************)
\* source_years of Cohort.__init__: the decade copied forward, per cutoff
source_years == (1988 :> 1960) @@ (2010 :> 1980)

\* range(source_year + 10, 2050, 10)
DestYears(source_year) ==
    {y \in (source_year + 10)..2049 : (y - source_year) % 10 = 0}

\* Cohort.__init__ up to the birth model: the transition model of the survey
\* with both decade maps extended from the cutoff's source decade
CohortInit(rs, cutoff, decade_flag) ==
    LET tm == TransitionModel2(rs, decade_flag)
    IN IF cutoff \notin DOMAIN source_years
       THEN [err |-> "KeyError", tm |-> tm]
       ELSE LET src == source_years[cutoff]
                up == extend_tables(tm.up_tables, src, DestYears(src))
                tr == extend_tables(tm.trans_tables, src, DestYears(src))
            IN IF up.err # "none" THEN [err |-> up.err, tm |-> tm]
               ELSE IF tr.err # "none" THEN [err |-> tr.err, tm |-> tm]
               ELSE [err |-> "none",
                     tm |-> [tm EXCEPT !.up_tables = up.tables,
                                       !.trans_tables = tr.tables]]

\* Generation(survey, n, age_pmf)
Generation(rs, n, age_pmf) == [survey |-> rs, n |-> n, age_pmf |-> age_pmf]

\* resample_by_age(n, year, age_pmf): the importance weight of each entry
\* with a known birth year is age_pmf.Prob(age) / current_age_pmf.Prob(age)
resample_by_age(rs, n, year, age_pmf) ==
    LET cur == make_age_pmf(rs, year)
        known == {k \in DOMAIN rs : rs[k].yrborn # NAyr}
    IN IF cur.err # "none" THEN [err |-> cur.err, out |-> {}]
       ELSE IF \E k \in known : ~RPos(PmfProb(cur.pmf, year - rs[k].yrborn))
       THEN [err |-> "ZeroDivisionError", out |-> {}]
       ELSE LET items == [k \in known |->
                            LET t == PmfProb(age_pmf, year - rs[k].yrborn)
                                c == PmfProb(cur.pmf, year - rs[k].yrborn)
                            IN <<t[1] * c[2], t[2] * c[1]>>]
                cdf == MakeCdfFromItems(items)
            IN IF cdf.err # "none" THEN [err |-> cdf.err, out |-> {}]
               ELSE resample_by_cdf(rs, cdf, n)

\* a target recomputed from the working population in the projected year
SimulateTargetOfWorking(g, predict_year) == make_age_pmf(g.survey, predict_year).pmf

\* the age_pmf Generation.simulate hands to resample_by_age: self.age_pmf
SimulateTarget(g, predict_year) == g.age_pmf

\* Generation.simulate(predict_year): the resamples it can return
simulate(g, predict_year) ==
    resample_by_age(g.survey, g.n, predict_year, SimulateTarget(g, predict_year))

\* a simulate that keeps the resample as the next year's working population
GenerationChained(g, resample) == [g EXCEPT !.survey = resample]

\* what Generation.simulate leaves of the Generation: it assigns none of
\* survey, n, age_pmf
GenerationAfterSimulate(g, resample) == g

\* a test that looks at the affiliation only
SkipsParentByRelig(parent) == parent.relig_name = NA

\* the test of simulate_generation's loop: 'NA' in [relig_name, yrborn]
SkipsParent(parent) == parent.relig_name = NA \/ parent.yrborn = NAyr

(***************************************************************************)
(* TransitionModel: SpouseTable, EnvironmentTable, TransitionTable.        *)
(***************************************************************************)
\* Pmf.Random(): a Pmf of total 0 cannot be sampled.  The failure comes
\* from the Pmf module, so it is not gss.py's own EmptyPmfError.
Random(pmf) ==
    IF PmfTotalNum(pmf) = 0
    THEN {[err |-> "PmfRandomError", val |-> NA]}
    ELSE {[err |-> "none", val |-> v] : v \in PmfRandomSet(pmf)}

\* a default size of one draw
ResampleSizeOne(rs, n) == IF n = 0 THEN 1 ELSE n

\* a size that is len(self.rs) whatever n is
ResampleSizeOfSource(rs, n) == Cardinality(DOMAIN rs)

\* n = n or len(self.rs), 0 standing for None as well
ResampleSize(rs, n) == IF n = 0 THEN Cardinality(DOMAIN rs) ELSE n

\* Survey.resample() of a Survey without a cached Cdf: make_cdf(), then
\* resample_by_cdf(cdf, len(rs))
resample(rs) ==
    LET made == make_cdf(rs)
    IN IF made.err # "none" THEN [err |-> made.err, out |-> {}]
       ELSE resample_by_cdf(rs, made, ResampleSize(rs, 0))

\* SpouseTable(survey), USE_PARENT_DATA being True: sp_female maps the
\* mother's affiliation to a Pmf of the father's, sp_male the reverse
SpouseTable(rs) ==
    LET ks == {k \in DOMAIN rs :
                 rs[k].marelig_name # NA /\ rs[k].parelig_name # NA}
    IN [sp_female |-> normalize_table(
           [x \in Names |-> CellOf(rs, "marelig_name", "parelig_name", x)]),
        sp_male |-> normalize_table(
           [x \in Names |-> CellOf(rs, "parelig_name", "marelig_name", x)]),
        sp_same |-> [s \in {1, 2} |->
           [same |-> Cardinality({k \in ks : rs[k].sex = s
                         /\ rs[k].marelig_name = rs[k].parelig_name}),
            diff |-> Cardinality({k \in ks : rs[k].sex = s
                         /\ rs[k].marelig_name # rs[k].parelig_name})]]]

\* generate_spouse(r)
generate_spouse(st, r) ==
    Random(IF r.sex = 1 THEN st.sp_male[r.relig_name]
                        ELSE st.sp_female[r.relig_name])

\* the Pmf of EnvironmentTable at (ma, pa): relig16_name by compwt over the
\* records with ma, pa and relig16_name known
EnvCellOf(rs, ma, pa) ==
    LET ks == {k \in DOMAIN rs :
                 /\ rs[k].marelig_name = ma /\ rs[k].parelig_name = pa
                 /\ ma # NA /\ pa # NA /\ rs[k].relig16_name # NA}
        ys == {rs[k].relig16_name : k \in ks}
    IN [d |-> [y \in ys |->
                 SumOver([k \in ks |-> rs[k].compwt],
                         {k \in ks : rs[k].relig16_name = y})],
        den |-> 1]

\* EnvironmentTable(survey); hist counts the records, unweighted
EnvironmentTable(rs) ==
    LET ks == {k \in DOMAIN rs :
                 /\ rs[k].marelig_name # NA /\ rs[k].parelig_name # NA
                 /\ rs[k].relig16_name # NA}
        ps == {<<rs[k].marelig_name, rs[k].parelig_name>> : k \in ks}
    IN [table |-> normalize_table(
                    [p \in Names \X Names |-> EnvCellOf(rs, p[1], p[2])]),
        hist |-> [p \in ps |->
                    Cardinality({k \in ks :
                       <<rs[k].marelig_name, rs[k].parelig_name>> = p})]]

\* generate_raised without the test of Total()
generate_raised_unguarded(et, ma, pa) == Random(et.table[<<ma, pa>>])

\* generate_raised(ma, pa): random.choice([ma, pa]) when the cell is empty
generate_raised(et, ma, pa) ==
    IF PmfTotalNum(et.table[<<ma, pa>>]) # 0
    THEN Random(et.table[<<ma, pa>>])
    ELSE {[err |-> "none", val |-> v] : v \in {ma, pa}}

\* TransitionTable(survey, title, attr1, attr2); hist counts the records,
\* unweighted
TransitionTable(rs, attr1, attr2) ==
    LET ks == {k \in DOMAIN rs : rs[k][attr1] # NA /\ rs[k][attr2] # NA}
        xs == {rs[k][attr1] : k \in ks}
    IN [table |-> normalize_table(
                    [x \in Names |-> CellOf(rs, attr1, attr2, x)]),
        hist |-> [x \in xs |-> Cardinality({k \in ks : rs[k][attr1] = x})],
        attr1 |-> attr1,
        attr2 |-> attr2]

\* a generate_relig that answers an empty cell with the key
generate_relig_or_raised(tt, raised) ==
    IF PmfTotalNum(tt.table[raised]) = 0
    THEN {[err |-> "none", val |-> raised]}
    ELSE Random(tt.table[raised])

\* generate_relig(raised)
generate_relig(tt, raised) == Random(tt.table[raised])

\* TransitionModel(survey, resample_flag): the models the constructor can
\* build, or the exception of its resample()
TransitionModel(rs, resample_flag) ==
    LET src == IF resample_flag THEN resample(rs)
               ELSE [err |-> "none", out |-> {rs}]
    IN IF src.err # "none" THEN [err |-> src.err, out |-> {}]
       ELSE [err |-> "none",
             out |-> {[spouse_table |-> SpouseTable(s),
                       env_table |-> EnvironmentTable(s),
                       trans_table |-> TransitionTable(s, "relig16_name",
                                                       "relig_name")] :
                      s \in src.out}]

\* a child tagged with its own affiliation instead of the parent's
TransitionChildTaggedLate(r, raised, relig_name) ==
    [fake_parent_relig_name |-> relig_name]
       @@ [r EXCEPT !.relig16_name = raised, !.relig_name = relig_name]

\* the child simulate_transition makes of r: copy.copy(r), then
\* fake_parent_relig_name, relig16_name and relig_name are assigned
TransitionChild(r, raised, relig_name) ==
    [fake_parent_relig_name |-> r.relig_name]
       @@ [r EXCEPT !.relig16_name = raised, !.relig_name = relig_name]

\* the body of simulate_transition's loop for a parent r of known
\* affiliation: spouse, upbringing, adult affiliation, child
transition_of(tm, r) ==
    UNION {
      IF s.err # "none" THEN {[err |-> s.err, child |-> r]}
      ELSE UNION {
        IF e.err # "none" THEN {[err |-> e.err, child |-> r]}
        ELSE {IF g.err # "none" THEN [err |-> g.err, child |-> r]
              ELSE [err |-> "none",
                    child |-> TransitionChild(r, e.val, g.val)] :
              g \in generate_relig(tm.trans_table, e.val)} :
        e \in IF r.sex = 1
              THEN generate_raised(tm.env_table, s.val, r.relig_name)
              ELSE generate_raised(tm.env_table, r.relig_name, s.val)} :
      s \in generate_spouse(tm.spouse_table, r)}

VARIABLES
    \* the inputs of one run: the Cohort's survey, cutoff, decade_flag,
    \* end_year, and the birth model read by make_birth_model
    survey, args, birth_model,
    \* the Cohort's transition model
    trans_model,
    \* where the run is, the exception that ended it and the method that
    \* raised it
    pc, err, raised_in,
    \* run_simulation / make_next_generation / simulate_generation locals
    start_survey, todo, child, next_gen, generation, year, surveys,
    \* the age_pmf handed to resample_by_age, per projected year
    targets,
    \* get_next_id's counter t[0], and every identifier it has assigned
    next_id, created,
    \* the children synthesized by the execution that ended before this one
    \* in the same process, when it was given the same survey and returned
    prev_run,
    \* one Survey object: self.rs and self.cdf, the last operation called on
    \* it, the n it was given (0 for None), the exception it raised and the
    \* Survey resample() returned
    self_rs, self_cdf, op, op_n, op_err, resampled,
    \* one TransitionModel: the Survey and the resample flags it is given,
    \* its tables, the position in next_gen / simulate_transition, the
    \* exception raised, the parents looped over and those still to visit,
    \* the next_gen dict, the last parent and child, next_gen's gen_table
    tm_survey, tm_flags, tm_model, tm_pc, tm_err, tm_parents, tm_todo,
    tm_next_gen, tm_last, gen_table,
    \* the tables built from one Survey and the last call made on them: the
    \* Survey, the position, the TransitionModel, the TransitionModel2, and
    \* the call with its arguments and outcome
    tb_survey, tb_pc, tb_model, tb_model2, tb_call,
    \* a TransitionModel2 with the identities of its decade tables: the
    \* Survey, the position, the model, the Table objects made for the
    \* decades by their number, the number of the object each decade of
    \* up_tables and trans_tables refers to, and the last extend_tables call
    ex_survey, ex_pc, ex_model, ex_objs, ex_ids, ex_call,
    \* one call of a function on given arguments: the arguments, the
    \* position, and the outcome
    cl_in, cl_pc, cl_out

cohortVars == <<survey, args, birth_model, trans_model, pc, err, raised_in,
                start_survey, todo, child, next_gen, generation, year,
                surveys, targets, next_id, created, prev_run>>

surveyVars == <<self_rs, self_cdf, op, op_n, op_err, resampled>>

transVars == <<tm_survey, tm_flags, tm_model, tm_pc, tm_err, tm_parents,
               tm_todo, tm_next_gen, tm_last, gen_table>>

tableVars == <<tb_survey, tb_pc, tb_model, tb_model2, tb_call>>
extendVars == <<ex_survey, ex_pc, ex_model, ex_objs, ex_ids, ex_call>>
callVars == <<cl_in, cl_pc, cl_out>>

vars == <<cohortVars, surveyVars, transVars, tableVars, extendVars, callVars>>

\* the surveys a Cohort may be given: up to MaxPop entries keyed 0..n-1, as
\* resample() keys them, one record possibly under several keys.  No
\* operation depends on which key holds which entry, so the entries are
\* taken in ascending caseid.
InputSurveys ==
    UNION {{rs \in [0..(n - 1) -> Pool] :
              \A i \in 1..(n - 1) : rs[i - 1].caseid <= rs[i].caseid} :
           n \in 0..MaxPop}

\* the end years a run may be given: the start year itself (a projection of
\* 0 years) up to MaxSpan years after it
EndYears == StartYear..(StartYear + MaxSpan)

InputArgs ==
    [cutoff : DOMAIN source_years, decade_flag : BOOLEAN, end_year : EndYears]

NoModel == TransitionModel2(EmptyRs, FALSE)
NoGeneration == Generation(EmptyRs, 0, EmptyPmf)
NoSurveys == [y \in {} |-> EmptyRs]
NoTargets == [y \in {} |-> EmptyPmf]
NoChild == [none |-> TRUE]
NoRun == [none |-> TRUE]

\* no Cohort is run
CohortIdle ==
    /\ survey = EmptyRs
    /\ args = [cutoff |-> StartYear, decade_flag |-> FALSE, end_year |-> StartYear]
    /\ birth_model = CHOOSE bm \in BirthModels : TRUE
    /\ trans_model = NoModel
    /\ pc = "idle"
    /\ err = "none"
    /\ raised_in = "none"
    /\ start_survey = EmptyRs
    /\ todo = {}
    /\ child = NoChild
    /\ next_gen = EmptyRs
    /\ generation = NoGeneration
    /\ year = StartYear
    /\ surveys = NoSurveys
    /\ targets = NoTargets
    /\ next_id = FirstId
    /\ created = <<>>
    /\ prev_run = NoRun

CohortInitial ==
    /\ survey \in InputSurveys
    /\ args \in InputArgs
    /\ birth_model \in BirthModels
    /\ trans_model = NoModel
    /\ pc = "new"
    /\ err = "none"
    /\ raised_in = "none"
    /\ start_survey = EmptyRs
    /\ todo = {}
    /\ child = NoChild
    /\ next_gen = EmptyRs
    /\ generation = NoGeneration
    /\ year = StartYear
    /\ surveys = NoSurveys
    /\ targets = NoTargets
    /\ next_id = FirstId
    /\ created = <<>>
    /\ prev_run = NoRun

\* an exception leaves the run: nothing is returned
Raise(e, where) ==
    /\ pc' = "failed"
    /\ err' = e
    /\ raised_in' = where

\* Cohort(survey, cutoff, decade_flag)
Construct ==
    /\ UNCHANGED <<surveyVars, transVars, tableVars, extendVars, callVars>>
    /\ pc = "new"
    /\ LET c == CohortInit(survey, args.cutoff, args.decade_flag)
       IN IF c.err # "none"
          THEN /\ Raise(c.err, "Cohort")
               /\ UNCHANGED trans_model
          ELSE /\ trans_model' = c.tm
               /\ pc' = "constructed"
               /\ UNCHANGED <<err, raised_in>>
    /\ UNCHANGED <<survey, args, birth_model, start_survey, todo, child,
                   next_gen, generation, year, surveys, targets, next_id,
                   created, prev_run>>

\* run_simulation up to the call of simulate_generation: the start-year
\* subsample, n and the age_pmf of make_next_generation
RunSimulationBegin ==
    /\ UNCHANGED <<surveyVars, transVars, tableVars, extendVars, callVars>>
    /\ pc = "constructed"
    /\ LET ss == subsample(survey, {r \in Pool : r.year = StartYear})
           ap == make_age_pmf(ss, StartYear)
       IN /\ start_survey' = ss
          /\ IF ap.err # "none"
             THEN /\ Raise(ap.err, "make_next_generation")
                  /\ UNCHANGED <<generation, todo>>
             ELSE /\ generation' = Generation(EmptyRs, Cardinality(DOMAIN ss), ap.pmf)
                  /\ todo' = DOMAIN ss
                  /\ pc' = "simulate_generation"
                  /\ UNCHANGED <<err, raised_in>>
    /\ UNCHANGED <<survey, args, birth_model, trans_model, child, next_gen,
                   year, surveys, targets, next_id, created, prev_run>>

\* one iteration of simulate_generation's loop over the parents
SimulateGenerationStep ==
    /\ UNCHANGED <<surveyVars, transVars, tableVars, extendVars, callVars>>
    /\ pc = "simulate_generation"
    /\ next_id < FirstId + MaxIds
    /\ \E k \in todo :
         LET parent == start_survey[k]
         IN /\ todo' = todo \ {k}
            /\ IF SkipsParent(parent)
               THEN UNCHANGED <<child, next_gen, next_id, created, pc, err,
                                raised_in>>
               ELSE \E age_when_born \in random_age(birth_model) :
                    \E o \in make_child(parent, parent.yrborn + age_when_born,
                                        trans_model, next_id) :
                       /\ next_id' = o.t
                       /\ created' = Append(created, o.child.caseid)
                       /\ child' = o.child
                       /\ IF o.err # "none"
                          THEN /\ Raise(o.err, "simulate_generation")
                               /\ UNCHANGED next_gen
                          ELSE /\ next_gen' = add_respondent(next_gen, o.child)
                               /\ UNCHANGED <<pc, err, raised_in>>
    /\ UNCHANGED <<survey, args, birth_model, trans_model, start_survey,
                   generation, year, surveys, targets, prev_run>>

\* the rest of make_next_generation: the start-year records are added to
\* the children and the Generation is made
MakeNextGenerationEnd ==
    /\ UNCHANGED <<surveyVars, transVars, tableVars, extendVars, callVars>>
    /\ pc = "simulate_generation"
    /\ todo = {}
    /\ generation' = Generation(add_respondents(next_gen, Records(start_survey)),
                                generation.n, generation.age_pmf)
    /\ pc' = "simulate"
    /\ UNCHANGED <<survey, args, birth_model, trans_model, err, raised_in,
                   start_survey, todo, child, next_gen, year, surveys, targets,
                   next_id, created, prev_run>>

\* one iteration of run_simulation's loop: surveys[year] = simulate(year)
Simulate ==
    /\ UNCHANGED <<surveyVars, transVars, tableVars, extendVars, callVars>>
    /\ pc = "simulate"
    /\ year <= args.end_year
    /\ LET res == simulate(generation, year)
       IN /\ targets' = (year :> SimulateTarget(generation, year)) @@ targets
          /\ IF res.err # "none"
             THEN /\ Raise(res.err, "simulate")
                  /\ UNCHANGED <<surveys, year, generation>>
             ELSE \E simulated \in res.out :
                    /\ surveys' = (year :> simulated) @@ surveys
                    /\ generation' = GenerationAfterSimulate(generation, simulated)
                    /\ year' = year + 1
                    /\ UNCHANGED <<pc, err, raised_in>>
    /\ UNCHANGED <<survey, args, birth_model, trans_model, start_survey, todo,
                   child, next_gen, next_id, created, prev_run>>

\* run_simulation returns surveys
RunSimulationReturn ==
    /\ UNCHANGED <<surveyVars, transVars, tableVars, extendVars, callVars>>
    /\ pc = "simulate"
    /\ year > args.end_year
    /\ pc' = "done"
    /\ UNCHANGED <<survey, args, birth_model, trans_model, err, raised_in,
                   start_survey, todo, child, next_gen, generation, year,
                   surveys, targets, next_id, created, prev_run>>

\* the next trial of plot_simulation_predictions: another Cohort is made on
\* a fresh resample in the same process, with the same cutoff and years;
\* everything is fresh but get_next_id's counter.  The years of the trial
\* before it, which make no record, are not followed here.
NextTrial ==
    /\ UNCHANGED <<surveyVars, transVars, tableVars, extendVars, callVars>>
    /\ pc \in {"simulate", "failed"}
    /\ next_id < FirstId + MaxIds
    /\ survey' \in InputSurveys
    /\ trans_model' = NoModel
    /\ pc' = "new"
    /\ err' = "none"
    /\ raised_in' = "none"
    /\ start_survey' = EmptyRs
    /\ todo' = {}
    /\ child' = NoChild
    /\ next_gen' = EmptyRs
    /\ generation' = NoGeneration
    /\ year' = StartYear
    /\ surveys' = NoSurveys
    /\ targets' = NoTargets
    /\ prev_run' = IF survey' = survey /\ pc = "simulate"
                   THEN [children |-> next_gen]
                   ELSE NoRun
    /\ UNCHANGED <<args, birth_model, next_id, created>>

(***************************************************************************)
(* One Survey object and the calls made on it.                             *)
(***************************************************************************)
\* the years resample_by_age is called for
PredictYears == StartYear..(StartYear + MaxSpan)

\* the age distributions resample_by_age may be given as its target: those
\* of the start year over some of the records
TargetAgePmfs(rs) ==
    {make_age_pmf(add_respondents(EmptyRs, T), StartYear).pmf :
       T \in {U \in SUBSET Records(rs) :
                make_age_pmf(add_respondents(EmptyRs, U), StartYear).err = "none"}}

\* self.cdf = None
NoCdf == [err |-> "None", xs |-> <<>>, cs |-> <<>>]

\* Survey(): no respondents, no Cdf
SurveyInitial ==
    /\ self_rs = EmptyRs
    /\ self_cdf = NoCdf
    /\ op = "Survey"
    /\ op_n = 0
    /\ op_err = "none"
    /\ resampled = EmptyRs

\* the Survey object is not used
SurveyIdle == SurveyInitial

\* what add_respondent, add_respondents and read_csv leave of self.cdf: none
\* of them assigns it
CdfAfterAdd(c) == c

\* add_respondent(r)
AddRespondent ==
    /\ UNCHANGED <<cohortVars, transVars, tableVars, extendVars, callVars>>
    /\ \E r \in Pool :
         /\ Cardinality((DOMAIN self_rs) \cup {r.caseid}) <= MaxPop
         /\ self_rs' = add_respondent(self_rs, r)
    /\ self_cdf' = CdfAfterAdd(self_cdf)
    /\ op' = "add_respondent"
    /\ op_n' = 0
    /\ op_err' = "none"
    /\ UNCHANGED resampled

\* add_respondents(rs)
AddRespondents ==
    /\ UNCHANGED <<cohortVars, transVars, tableVars, extendVars, callVars>>
    /\ \E new \in SUBSET Pool :
         /\ Cardinality((DOMAIN self_rs) \cup {r.caseid : r \in new}) <= MaxPop
         /\ self_rs' = add_respondents(self_rs, new)
    /\ self_cdf' = CdfAfterAdd(self_cdf)
    /\ op' = "add_respondents"
    /\ op_n' = 0
    /\ op_err' = "none"
    /\ UNCHANGED resampled

\* read_csv(filename, constructor): self.rs[obj.caseid] = obj for each
\* object read
ReadCsv ==
    /\ UNCHANGED <<cohortVars, transVars, tableVars, extendVars, callVars>>
    /\ \E objs \in SUBSET Pool :
         /\ Cardinality((DOMAIN self_rs) \cup {r.caseid : r \in objs}) <= MaxPop
         /\ self_rs' = add_respondents(self_rs, objs)
    /\ self_cdf' = CdfAfterAdd(self_cdf)
    /\ op' = "read_csv"
    /\ op_n' = 0
    /\ op_err' = "none"
    /\ UNCHANGED resampled

\* resample(n), n = 0 standing for None as well: n = n or len(self.rs)
Resample ==
    /\ UNCHANGED <<cohortVars, transVars, tableVars, extendVars, callVars>>
    /\ \E n \in 0..MaxPop :
       LET made == IF self_cdf = NoCdf THEN make_cdf(self_rs) ELSE self_cdf
           size == ResampleSize(self_rs, n)
       IN /\ op' = "resample"
          /\ op_n' = n
          /\ IF made.err # "none"
             THEN /\ op_err' = made.err
                  /\ UNCHANGED <<self_rs, self_cdf, resampled>>
             ELSE LET res == resample_by_cdf(self_rs, made, size)
                  IN /\ self_cdf' = made
                     /\ UNCHANGED self_rs
                     /\ IF res.err # "none"
                        THEN /\ op_err' = res.err
                             /\ UNCHANGED resampled
                        ELSE /\ op_err' = "none"
                             /\ resampled' \in res.out

(***************************************************************************)
(* One TransitionModel, built from a Survey and run on it by next_gen.     *)
(***************************************************************************)
NoTransitionModel == [none |-> TRUE]
NoTransition == [none |-> TRUE]
NoTable == [none |-> TRUE]

\* the Surveys a TransitionModel may be given: up to MaxPop records of the
\* pool keyed by caseid, as read_csv keys them
InputSurveysByCaseid ==
    {add_respondents(EmptyRs, S) : S \in {T \in SUBSET Pool : Cardinality(T) <= MaxPop}}

\* the Surveys a TransitionModel is simulated on: the pool and a record of
\* weight 0 that left the affiliation all others were raised in
TransitionSurveys ==
    {add_respondents(EmptyRs, S) :
       S \in {T \in SUBSET (Pool \cup
                 {Respondent(7, 0, 1988, 1961, 1, "none", "prot", "prot", "prot")}) :
               Cardinality(T) <= MaxPop}}

TransitionInitial ==
    /\ tm_survey \in TransitionSurveys
    /\ tm_flags \in [model : BOOLEAN, next_gen : BOOLEAN]
    /\ tm_model = NoTransitionModel
    /\ tm_pc = "new"
    /\ tm_err = "none"
    /\ tm_parents = EmptyRs
    /\ tm_todo = {}
    /\ tm_next_gen = EmptyRs
    /\ tm_last = NoTransition
    /\ gen_table = NoTable

\* no TransitionModel is run
TransitionIdle ==
    /\ tm_survey = EmptyRs
    /\ tm_flags = [model |-> FALSE, next_gen |-> FALSE]
    /\ tm_model = NoTransitionModel
    /\ tm_pc = "idle"
    /\ tm_err = "none"
    /\ tm_parents = EmptyRs
    /\ tm_todo = {}
    /\ tm_next_gen = EmptyRs
    /\ tm_last = NoTransition
    /\ gen_table = NoTable

\* TransitionModel(survey, resample_flag)
TransitionModelInit ==
    /\ tm_pc = "new"
    /\ LET m == TransitionModel(tm_survey, tm_flags.model)
       IN IF m.err # "none"
          THEN /\ tm_pc' = "failed"
               /\ tm_err' = m.err
               /\ UNCHANGED tm_model
          ELSE /\ tm_model' \in m.out
               /\ tm_pc' = "constructed"
               /\ UNCHANGED tm_err
    /\ UNCHANGED <<tm_survey, tm_flags, tm_parents, tm_todo, tm_next_gen,
                   tm_last, gen_table>>
    /\ UNCHANGED <<cohortVars, surveyVars, tableVars, extendVars, callVars>>

\* next_gen(survey, resample_flag) -> simulate_transition, up to its loop
SimulateTransitionBegin ==
    /\ tm_pc = "constructed"
    /\ LET src == IF tm_flags.next_gen THEN resample(tm_survey)
                  ELSE [err |-> "none", out |-> {tm_survey}]
       IN IF src.err # "none"
          THEN /\ tm_pc' = "failed"
               /\ tm_err' = src.err
               /\ UNCHANGED <<tm_parents, tm_todo>>
          ELSE /\ tm_parents' \in src.out
               /\ tm_todo' = DOMAIN tm_parents'
               /\ tm_pc' = "simulate_transition"
               /\ UNCHANGED tm_err
    /\ tm_next_gen' = EmptyRs
    /\ UNCHANGED <<tm_survey, tm_flags, tm_model, tm_last, gen_table>>
    /\ UNCHANGED <<cohortVars, surveyVars, tableVars, extendVars, callVars>>

\* one iteration of the loop of simulate_transition
SimulateTransitionStep ==
    /\ tm_pc = "simulate_transition"
    /\ \E k \in tm_todo :
         LET r == tm_parents[k]
         IN IF r.relig_name = NA
            THEN /\ tm_todo' = tm_todo \ {k}
                 /\ UNCHANGED <<tm_pc, tm_err, tm_next_gen, tm_last>>
            ELSE \E o \in transition_of(tm_model, r) :
                   IF o.err # "none"
                   THEN /\ tm_pc' = "failed"
                        /\ tm_err' = o.err
                        /\ UNCHANGED <<tm_todo, tm_next_gen, tm_last>>
                   ELSE /\ tm_next_gen' = add_respondent(tm_next_gen, o.child)
                        /\ tm_last' = [parent |-> r, child |-> o.child]
                        /\ tm_todo' = tm_todo \ {k}
                        /\ UNCHANGED <<tm_pc, tm_err>>
    /\ UNCHANGED <<tm_survey, tm_flags, tm_model, tm_parents, gen_table>>
    /\ UNCHANGED <<cohortVars, surveyVars, tableVars, extendVars, callVars>>

\* simulate_transition returns Survey(next_gen); next_gen computes the
\* generation table and returns
NextGenReturn ==
    /\ tm_pc = "simulate_transition"
    /\ tm_todo = {}
    /\ gen_table' = TransitionTable(tm_next_gen, "fake_parent_relig_name",
                                    "relig_name")
    /\ tm_pc' = "returned"
    /\ UNCHANGED <<tm_survey, tm_flags, tm_model, tm_err, tm_parents, tm_todo,
                   tm_next_gen, tm_last>>
    /\ UNCHANGED <<cohortVars, surveyVars, tableVars, extendVars, callVars>>

(***************************************************************************)
(* The tables built from one Survey, and calls on them.                    *)
(***************************************************************************)
NoCall == [op |-> "none"]

TablesInitial ==
    /\ tb_survey \in InputSurveysByCaseid
    /\ tb_pc = "new"
    /\ tb_model = NoTransitionModel
    /\ tb_model2 = NoModel
    /\ tb_call = NoCall

\* no table is built
TablesIdle ==
    /\ tb_survey = EmptyRs
    /\ tb_pc = "idle"
    /\ tb_model = NoTransitionModel
    /\ tb_model2 = NoModel
    /\ tb_call = NoCall

\* TransitionModel(survey): SpouseTable, EnvironmentTable, TransitionTable;
\* TransitionModel2(survey): the Tables of cross_tab
MakeTables ==
    /\ UNCHANGED <<cohortVars, surveyVars, transVars, extendVars, callVars>>
    /\ tb_pc = "new"
    /\ tb_model' \in TransitionModel(tb_survey, FALSE).out
    /\ tb_model2' = TransitionModel2(tb_survey, FALSE)
    /\ tb_pc' = "built"
    /\ UNCHANGED <<tb_survey, tb_call>>

\* env_table.generate_raised(ma, pa)
GenerateRaised ==
    /\ UNCHANGED <<cohortVars, surveyVars, transVars, extendVars, callVars>>
    /\ tb_pc = "built"
    /\ \E ma \in Names, pa \in Names :
       \E o \in generate_raised(tb_model.env_table, ma, pa) :
          tb_call' = [op |-> "generate_raised", key |-> <<ma, pa>>,
                      err |-> o.err, val |-> o.val]
    /\ UNCHANGED <<tb_survey, tb_pc, tb_model, tb_model2>>

\* the pooled Tables of TransitionModel2 with the attributes they tabulate
PooledTables ==
    {[name |-> "up_table", attr1 |-> "parelig_name", attr2 |-> "relig16_name"],
     [name |-> "trans_table", attr1 |-> "relig16_name", attr2 |-> "relig_name"]}

\* SpouseTable.generate_spouse(r), r of either sex and any affiliation
GenerateSpouse ==
    /\ UNCHANGED <<cohortVars, surveyVars, transVars, extendVars, callVars>>
    /\ tb_pc = "built"
    /\ \E sex \in {1, 2}, name \in Names :
       \E o \in generate_spouse(tb_model.spouse_table,
                                [sex |-> sex, relig_name |-> name]) :
          tb_call' = [op |-> "generate_spouse", sex |-> sex, key |-> name,
                      err |-> o.err, val |-> o.val]
    /\ UNCHANGED <<tb_survey, tb_pc, tb_model, tb_model2>>

\* TransitionTable.generate_relig(raised)
GenerateRelig ==
    /\ UNCHANGED <<cohortVars, surveyVars, transVars, extendVars, callVars>>
    /\ tb_pc = "built"
    /\ \E raised \in Names :
       \E o \in generate_relig(tb_model.trans_table, raised) :
          tb_call' = [op |-> "generate_relig", key |-> raised,
                      err |-> o.err, val |-> o.val]
    /\ UNCHANGED <<tb_survey, tb_pc, tb_model, tb_model2>>

\* Table.choose(key) on up_table or trans_table
TableChoose ==
    /\ UNCHANGED <<cohortVars, surveyVars, transVars, extendVars, callVars>>
    /\ tb_pc = "built"
    /\ \E t \in PooledTables, key \in Names :
       \E o \in choose(tb_model2[t.name], key) :
          tb_call' = [op |-> "choose", table |-> t, key |-> key,
                      err |-> o.err, val |-> o.val]
    /\ UNCHANGED <<tb_survey, tb_pc, tb_model, tb_model2>>

(***************************************************************************)
(* TransitionModel2.extend_tables on the decade tables, by identity.        *)
(***************************************************************************)
\* the position of decade d among the decades of tables, in ascending order
DecadeRank(tables, d) == Cardinality({e \in DOMAIN tables : e <= d})

\* make_cross_tabs makes one Table object per decade: the objects of
\* up_tables are numbered first, those of trans_tables after them
TableIds(tm) ==
    [up_tables |-> [d \in DOMAIN tm.up_tables |-> DecadeRank(tm.up_tables, d)],
     trans_tables |-> [d \in DOMAIN tm.trans_tables |->
                         Cardinality(DOMAIN tm.up_tables)
                           + DecadeRank(tm.trans_tables, d)]]

\* the Table objects by their number
TableObjects(tm) ==
    LET ids == TableIds(tm)
        n == Cardinality(DOMAIN tm.up_tables)
              + Cardinality(DOMAIN tm.trans_tables)
    IN [i \in 1..n |->
          IF \E d \in DOMAIN ids.up_tables : ids.up_tables[d] = i
          THEN tm.up_tables[CHOOSE d \in DOMAIN ids.up_tables :
                              ids.up_tables[d] = i]
          ELSE tm.trans_tables[CHOOSE d \in DOMAIN ids.trans_tables :
                                 ids.trans_tables[d] = i]]

\* the decades extend_tables is called with: 1970 never has a table
ExtendYears == {1950, 1960, 1970}

\* the decade maps of TransitionModel2
DecadeMaps == {"up_tables", "trans_tables"}

ExtendInitial ==
    /\ ex_survey \in InputSurveysByCaseid
    /\ ex_pc = "new"
    /\ ex_model = NoModel
    /\ ex_objs = TableObjects(NoModel)
    /\ ex_ids = TableIds(NoModel)
    /\ ex_call = NoCall

\* no TransitionModel2 is extended
ExtendIdle ==
    /\ ex_survey = EmptyRs
    /\ ex_pc = "idle"
    /\ ex_model = NoModel
    /\ ex_objs = TableObjects(NoModel)
    /\ ex_ids = TableIds(NoModel)
    /\ ex_call = NoCall

\* TransitionModel2(survey): make_cross_tabs makes the objects
MakeDecadeTables ==
    /\ UNCHANGED <<cohortVars, surveyVars, transVars, tableVars, callVars>>
    /\ ex_pc = "new"
    /\ ex_model' = TransitionModel2(ex_survey, FALSE)
    /\ ex_objs' = TableObjects(ex_model')
    /\ ex_ids' = TableIds(ex_model')
    /\ ex_pc' = "built"
    /\ UNCHANGED <<ex_survey, ex_call>>

\* TransitionModel2.extend_tables(attr, source_year, dest_years): the
\* assignment tables[dest_year] = source stores a reference, so it acts alike
\* on the identities and on the contents seen through the decades
ExtendTables ==
    /\ UNCHANGED <<cohortVars, surveyVars, transVars, tableVars, callVars>>
    /\ ex_pc = "built"
    /\ \E attr \in DecadeMaps, source_year \in ExtendYears,
          dest_years \in SUBSET ExtendYears :
         LET ids == extend_tables(ex_ids[attr], source_year, dest_years)
             tabs == extend_tables(ex_model[attr], source_year, dest_years)
         IN /\ ex_ids' = [ex_ids EXCEPT ![attr] = ids.tables]
            /\ ex_model' = [ex_model EXCEPT ![attr] = tabs.tables]
            /\ ex_call' = [op |-> "extend_tables", attr |-> attr,
                           source_year |-> source_year,
                           dest_years |-> dest_years, err |-> ids.err]
    /\ UNCHANGED <<ex_survey, ex_pc, ex_objs>>

(***************************************************************************)
(* Calls of functions on given arguments.                                  *)
(***************************************************************************)
\* no call is made
CallIdle ==
    /\ cl_in = NoCall
    /\ cl_pc = "idle"
    /\ cl_out = NoCall

\* the quantities of a state vector that are followed, and the values a
\* quantity takes in a trial
Tracked == {"prot", "none"}
Outcomes == 0..2

\* the state vectors of the trials: data of run_transition_model
DataInputs ==
    UNION {[1..n -> [Tracked -> Outcomes]] : n \in 0..MaxTrials}

\* thinkstats.Mean(col): the sum over the number of values, as a rational
Mean(col) == <<SumOver(col, DOMAIN col), Len(col)>>

RECURSIVE SortCol(_)
\* col.sort(): ascending
SortCol(col) ==
    IF col = <<>> THEN <<>>
    ELSE LET i == CHOOSE j \in DOMAIN col : \A k \in DOMAIN col : col[j] <= col[k]
             rest == [k \in 1..(Len(col) - 1) |->
                        IF k < i THEN col[k] ELSE col[k + 1]]
         IN <<col[i]>> \o SortCol(rest)

\* an extract_predictions whose span is the full range of the outcomes
extract_predictions_full_range(data) ==
    IF data = <<>> THEN [err |-> "none", preds |-> <<>>]
    ELSE IF Len(data) < 2 THEN [err |-> "IndexError", preds |-> <<>>]
    ELSE [err |-> "none",
          preds |-> [q \in Tracked |->
             LET col == [i \in 1..Len(data) |-> data[i][q]]
                 sorted == SortCol(col)
             IN [mean |-> Mean(col),
                 span |-> <<sorted[1], sorted[Len(sorted)]>>]]]

\* extract_predictions(data): cols = zip(*data) has no column when data is
\* empty; col[1] and col[-2] of a one-element column are an IndexError
extract_predictions(data) ==
    IF data = <<>> THEN [err |-> "none", preds |-> <<>>]
    ELSE IF Len(data) < 2 THEN [err |-> "IndexError", preds |-> <<>>]
    ELSE [err |-> "none",
          preds |-> [q \in Tracked |->
             LET col == [i \in 1..Len(data) |-> data[i][q]]
                 sorted == SortCol(col)
             IN [mean |-> Mean(col),
                 span |-> <<sorted[2], sorted[Len(sorted) - 1]>>]]]

\* the state vectors of the trials are given
PredictInitial ==
    /\ cl_in \in DataInputs
    /\ cl_pc = "data"
    /\ cl_out = NoCall

\* preds = self.extract_predictions(data)
ExtractPredictions ==
    /\ UNCHANGED <<cohortVars, surveyVars, transVars, tableVars, extendVars>>
    /\ cl_pc = "data"
    /\ cl_out' = extract_predictions(cl_in)
    /\ cl_pc' = "predictions"
    /\ UNCHANGED cl_in

\* the ages prob is asked for
AgeInputs == (0 - TableLen - 1)..TableLen

\* a BirthModel and an age are given
ProbInitial ==
    /\ cl_in \in [bm : BirthModels, age : AgeInputs]
    /\ cl_pc = "age"
    /\ cl_out = NoCall

\* birth_model.prob(age)
BirthProb ==
    /\ UNCHANGED <<cohortVars, surveyVars, transVars, tableVars, extendVars>>
    /\ cl_pc = "age"
    /\ cl_out' = prob(cl_in.bm, cl_in.age)
    /\ cl_pc' = "prob"
    /\ UNCHANGED cl_in

\* the filters subsample is given, as the sets of records they accept:
\* r.year == start_year, and r.caseid >= 90000
Filters ==
    {{r \in Pool : r.year = y} : y \in {StartYear, StartYear + 20}}
      \cup {{r \in Pool : r.caseid >= FirstId}}

\* a Survey as resample() returns it is given
SelectInitial ==
    /\ cl_in \in InputSurveys
    /\ cl_pc = "survey"
    /\ cl_out = NoCall

\* survey.subsample(filter_func)
Subsample ==
    /\ UNCHANGED <<cohortVars, surveyVars, transVars, tableVars, extendVars>>
    /\ cl_pc = "survey"
    /\ \E kept \in Filters :
         cl_out' = [op |-> "subsample", kept |-> kept,
                    out |-> subsample(cl_in, kept)]
    /\ cl_pc' = "selected"
    /\ UNCHANGED cl_in

\* survey.partition_by_attr(attr)
PartitionByAttr ==
    /\ UNCHANGED <<cohortVars, surveyVars, transVars, tableVars, extendVars>>
    /\ cl_pc = "survey"
    /\ \E attr \in {"year", "decade"} :
         cl_out' = [op |-> "partition_by_attr", attr |-> attr,
                    out |-> partition_by_attr(cl_in, attr)]
    /\ cl_pc' = "selected"
    /\ UNCHANGED cl_in

\* the birth years the lookups of TransitionModel2 are asked for: one in
\* each decade of the pool and one in a decade without records
LookupYears == {1955, 1965, 1975, 1985}

\* a TransitionModel2 in per-decade mode, a birth year and an affiliation
\* are given
LookupInitial ==
    /\ cl_in \in [tm : {TransitionModel2(rs, TRUE) : rs \in InputSurveysByCaseid},
                   yrborn : LookupYears, relig_name : Names]
    /\ cl_pc = "lookup"
    /\ cl_out = NoCall

\* trans_model.choose_upbringing(yrborn, relig_name)
ChooseUpbringing ==
    /\ UNCHANGED <<cohortVars, surveyVars, transVars, tableVars, extendVars>>
    /\ cl_pc = "lookup"
    /\ \E o \in choose_upbringing(cl_in.tm, cl_in.yrborn, cl_in.relig_name) :
         cl_out' = [op |-> "choose_upbringing", err |-> o.err, val |-> o.val]
    /\ cl_pc' = "chosen"
    /\ UNCHANGED cl_in

\* trans_model.choose_transmission(yrborn, relig_name)
ChooseTransmission ==
    /\ UNCHANGED <<cohortVars, surveyVars, transVars, tableVars, extendVars>>
    /\ cl_pc = "lookup"
    /\ \E o \in choose_transmission(cl_in.tm, cl_in.yrborn, cl_in.relig_name) :
         cl_out' = [op |-> "choose_transmission", err |-> o.err, val |-> o.val]
    /\ cl_pc' = "chosen"
    /\ UNCHANGED cl_in

\* a Generation over a working population, and the year it is projected
\* to: the target is the age distribution of the start year over some of
\* the population's records
ProjectInitial ==
    /\ cl_in \in UNION {[g : {Generation(rs, n, age_pmf) :
                                n \in 1..MaxPop, age_pmf \in TargetAgePmfs(rs)},
                          predict_year : PredictYears] :
                         rs \in InputSurveysByCaseid}
    /\ cl_pc = "generation"
    /\ cl_out = NoCall

\* generation.simulate(predict_year):
\* self.survey.resample_by_age(self.n, predict_year, self.age_pmf)
GenerationSimulate ==
    /\ UNCHANGED <<cohortVars, surveyVars, transVars, tableVars, extendVars>>
    /\ cl_pc = "generation"
    /\ LET res == simulate(cl_in.g, cl_in.predict_year)
       IN IF res.err # "none"
          THEN cl_out' = [err |-> res.err, resample |-> EmptyRs]
          ELSE \E out \in res.out : cl_out' = [err |-> "none", resample |-> out]
    /\ cl_pc' = "projected"
    /\ UNCHANGED cl_in

Init == CohortInitial /\ SurveyIdle /\ TransitionIdle /\ TablesIdle /\ ExtendIdle
      /\ CallIdle

\* one Cohort, constructed and run
Next ==
    \/ Construct
    \/ RunSimulationBegin
    \/ SimulateGenerationStep
    \/ MakeNextGenerationEnd
    \/ Simulate
    \/ RunSimulationReturn

Spec == Init /\ [][Next]_vars

\* the generations of successive trials in one process
TrialsNext ==
    \/ Construct
    \/ RunSimulationBegin
    \/ SimulateGenerationStep
    \/ MakeNextGenerationEnd
    \/ NextTrial

SpecTrials == Init /\ [][TrialsNext]_vars

\* the calls on one Survey object
\* resample_by_age(n, year, age_pmf): a Cdf of its own, self.cdf is neither
\* read nor assigned
ResampleByAge ==
    /\ UNCHANGED <<cohortVars, transVars, tableVars, extendVars, callVars>>
    /\ \E n \in 1..MaxPop, y \in PredictYears, age_pmf \in TargetAgePmfs(self_rs) :
         LET res == resample_by_age(self_rs, n, y, age_pmf)
         IN /\ op' = "resample_by_age"
            /\ op_n' = n
            /\ UNCHANGED <<self_rs, self_cdf>>
            /\ IF res.err # "none"
               THEN /\ op_err' = res.err
                    /\ UNCHANGED resampled
               ELSE /\ op_err' = "none"
                    /\ resampled' \in res.out

SurveyInit ==
    CohortIdle /\ SurveyInitial /\ TransitionIdle /\ TablesIdle /\ ExtendIdle
      /\ CallIdle

SurveyNext ==
    \/ AddRespondent
    \/ AddRespondents
    \/ ReadCsv
    \/ Resample
    \/ ResampleByAge

SpecSurvey == SurveyInit /\ [][SurveyNext]_vars

\* one TransitionModel, constructed and run by next_gen
TransitionInit ==
    CohortIdle /\ SurveyIdle /\ TransitionInitial /\ TablesIdle /\ ExtendIdle
      /\ CallIdle

TransitionNext ==
    \/ TransitionModelInit
    \/ SimulateTransitionBegin
    \/ SimulateTransitionStep
    \/ NextGenReturn

SpecTransition == TransitionInit /\ [][TransitionNext]_vars

\* the tables of one Survey, built and called
TablesInit ==
    CohortIdle /\ SurveyIdle /\ TransitionIdle /\ TablesInitial /\ ExtendIdle
      /\ CallIdle

TablesNext ==
    \/ MakeTables
    \/ GenerateRaised
    \/ GenerateSpouse
    \/ GenerateRelig
    \/ TableChoose

SpecTables == TablesInit /\ [][TablesNext]_vars

\* one TransitionModel2, constructed and extended
ExtendInit ==
    CohortIdle /\ SurveyIdle /\ TransitionIdle /\ TablesIdle /\ ExtendInitial
      /\ CallIdle

ExtendNext ==
    \/ MakeDecadeTables
    \/ ExtendTables

SpecExtend == ExtendInit /\ [][ExtendNext]_vars

\* the predictions of given trial outcomes
PredictInit ==
    CohortIdle /\ SurveyIdle /\ TransitionIdle /\ TablesIdle /\ ExtendIdle
      /\ PredictInitial

PredictNext ==
    \/ ExtractPredictions

SpecPredict == PredictInit /\ [][PredictNext]_vars

\* the hazard of a given age
ProbInit ==
    CohortIdle /\ SurveyIdle /\ TransitionIdle /\ TablesIdle /\ ExtendIdle
      /\ ProbInitial

ProbNext ==
    \/ BirthProb

SpecProb == ProbInit /\ [][ProbNext]_vars

\* the selections of a resampled Survey
SelectInit ==
    CohortIdle /\ SurveyIdle /\ TransitionIdle /\ TablesIdle /\ ExtendIdle
      /\ SelectInitial

SelectNext ==
    \/ Subsample
    \/ PartitionByAttr

SpecSelect == SelectInit /\ [][SelectNext]_vars

\* the lookups of a TransitionModel2 in per-decade mode
LookupInit ==
    CohortIdle /\ SurveyIdle /\ TransitionIdle /\ TablesIdle /\ ExtendIdle
      /\ LookupInitial

LookupNext ==
    \/ ChooseUpbringing
    \/ ChooseTransmission

SpecLookup == LookupInit /\ [][LookupNext]_vars

\* the projection of a Generation to a year
ProjectInit ==
    CohortIdle /\ SurveyIdle /\ TransitionIdle /\ TablesIdle /\ ExtendIdle
      /\ ProjectInitial

ProjectNext == GenerationSimulate

SpecProject == ProjectInit /\ [][ProjectNext]_vars

(***************************************************************************)
(* Properties.                                                             *)
(***************************************************************************)

\* C1 (as claimed): the Cdf a resample() has drawn from covers exactly the
\* current members of the Survey.
C1_ResampleDrawsFromCurrentMembers ==
    (op = "resample" /\ op_err = "none") =>
       {self_cdf.xs[i] : i \in 1..Len(self_cdf.xs)} = DOMAIN self_rs

\* the entries of rs with a known birth year whose age in year y has
\* probability 0 under rs's own age distribution
ZeroProbMembers(rs, y) ==
    LET cur == make_age_pmf(rs, y)
    IN {k \in DOMAIN rs :
          /\ rs[k].yrborn # NAyr
          /\ cur.err = "none"
          /\ ~RPos(PmfProb(cur.pmf, y - rs[k].yrborn))}

\* C2 (as claimed): whenever resample_by_age is called for a year y on a
\* working population holding a member whose age in y has probability 0
\* under the population's own age distribution, the call returns a resample
\* and that member is not in it.
C2_ZeroProbabilityAgeIsExcluded ==
    \A y \in DOMAIN targets :
        LET zero == ZeroProbMembers(generation.survey, y)
        IN zero # {} =>
             /\ y \in DOMAIN surveys
             /\ \A i \in DOMAIN surveys[y] :
                  surveys[y][i] \notin {generation.survey[k] : k \in zero}

\* C3 (as claimed): simulate_generation never raises.
C3_SimulateGenerationNeverFails == raised_in # "simulate_generation"

\* C4: in per-decade mode, a child whose birth decade has no table in
\* up_tables or trans_tables ends the run with a KeyError raised out of
\* simulate_generation: the child is in no next generation, no Generation
\* is made and no year is projected.
C4_MissingDecadeReachesCaller ==
    (/\ args.decade_flag
     /\ child # NoChild
     /\ Decade(child.yrborn) \notin
           (DOMAIN trans_model.up_tables) \cap (DOMAIN trans_model.trans_tables))
    => /\ pc = "failed"
       /\ err = "KeyError"
       /\ raised_in = "simulate_generation"
       /\ child.caseid \notin DOMAIN next_gen
       /\ generation.survey = EmptyRs
       /\ surveys = NoSurveys

\* C4 witness: a run in per-decade mode ended by a child born in a decade
\* without a table
C4_Witness ==
    /\ args.decade_flag
    /\ child # NoChild
    /\ Decade(child.yrborn) \notin DOMAIN trans_model.up_tables
    /\ pc = "failed"

\* C5: when run_simulation returns, the map has exactly the years
\* start_year..end_year and each population has n entries, n the size of
\* the start-year survey.
C5_OneEntryPerYearOfSizeN ==
    pc = "done" =>
       /\ DOMAIN surveys = StartYear..args.end_year
       /\ \A y \in DOMAIN surveys :
            Cardinality(DOMAIN surveys[y]) = Cardinality(DOMAIN start_survey)

\* C5 witness: a run over two years from a start-year survey of two records
C5_Witness ==
    /\ pc = "done"
    /\ args.end_year = StartYear + 1
    /\ Cardinality(DOMAIN start_survey) = 2

\* C6: a step of the projection loop leaves the Generation (working
\* population, n, age_pmf) as it was.
C6_SimulateLeavesGeneration == [][pc = "simulate" => generation' = generation]_vars

\* C6 witness: two years projected, with different resamples
C6_Witness ==
    /\ pc = "done"
    /\ args.end_year = StartYear + 1
    /\ surveys[StartYear] # surveys[StartYear + 1]

C8_IdsFromOneCounter ==
    /\ \A i \in 1..Len(created) : created[i] = FirstId + i - 1
    /\ \A id \in DOMAIN next_gen :
         /\ next_gen[id].caseid = id
         /\ \E i \in 1..Len(created) : created[i] = id

\* C8 witness: a child of a later trial, after two identifiers of earlier
\* trials
C8_Witness ==
    /\ Len(created) = 3
    /\ DOMAIN next_gen = {created[3]}

MadeNextGeneration ==
    pc \in {"simulate", "done"} \/ (pc = "failed" /\ raised_in = "simulate")

\* C11 (as claimed): after make_next_generation the working population
\* holds every start-year record and every synthesized child, has
\* |start survey| + |children| entries whenever no start-year identifier is
\* 90000 or more, and the start-year survey is what it was.
C11_WorkingPopulationIsUnion ==
    MadeNextGeneration =>
       /\ \A k \in DOMAIN start_survey :
             start_survey[k] \in Records(generation.survey)
       /\ \A c \in DOMAIN next_gen :
             next_gen[c] \in Records(generation.survey)
       /\ (\A k \in DOMAIN start_survey : start_survey[k].caseid < FirstId)
             => Cardinality(DOMAIN generation.survey)
                  = Cardinality(DOMAIN start_survey) + Cardinality(DOMAIN next_gen)
       /\ start_survey = subsample(survey, {r \in Pool : r.year = StartYear})

\* C12: a resample() without n that returns yields len(source) entries,
\* each a record of the source, and leaves the source's records as they
\* were.
C12_ResampleReturnsSourceSize ==
    [][(op' = "resample" /\ op_n' = 0 /\ op_err' = "none") =>
          /\ self_rs' = self_rs
          /\ Cardinality(DOMAIN resampled') = Cardinality(DOMAIN self_rs)
          /\ \A i \in DOMAIN resampled' : resampled'[i] \in Records(self_rs)]_vars

\* C12 witness: a resample() of a two-record Survey that drew one record
\* twice
C12_Witness ==
    /\ op = "resample" /\ op_n = 0 /\ op_err = "none"
    /\ Cardinality(DOMAIN self_rs) = 2
    /\ DOMAIN resampled = {0, 1}
    /\ resampled[0] = resampled[1]

\* C13 (as claimed): no Survey returned by resample or resample_by_age holds
\* a record of weight 0, and every record of the Survey, of weight 0 or
\* not, is what lookup returns for its identifier.
C13_ZeroWeightNeverSelected ==
    /\ (op \in {"resample", "resample_by_age"} /\ op_err = "none") =>
          \A i \in DOMAIN resampled : resampled[i].compwt > 0
    /\ \A r \in Records(self_rs) : lookup(self_rs, r.caseid) = r

\* the records that EnvironmentTable files under (ma, pa)
EnvRecords(rs, ma, pa) ==
    {r \in Records(rs) : /\ r.marelig_name = ma /\ r.parelig_name = pa
                         /\ r.relig16_name # NA}

\* C14: generate_raised(ma, pa) does not fail; it returns ma or pa when the
\* records of (ma, pa) have total weight 0, and otherwise the upbringing of
\* one of those records.
C14_GenerateRaisedNeverFails ==
    tb_call.op = "generate_raised" =>
       LET recs == EnvRecords(tb_survey, tb_call.key[1], tb_call.key[2])
       IN /\ tb_call.err = "none"
          /\ IF \A r \in recs : r.compwt = 0
             THEN tb_call.val \in {tb_call.key[1], tb_call.key[2]}
             ELSE tb_call.val \in {r.relig16_name : r \in recs}

\* C14 witness: a call on a cell that holds a record of weight 0 only,
\* answered with the father's affiliation
C14_Witness ==
    /\ tb_call.op = "generate_raised"
    /\ EnvRecords(tb_survey, tb_call.key[1], tb_call.key[2]) # {}
    /\ \A r \in EnvRecords(tb_survey, tb_call.key[1], tb_call.key[2]) : r.compwt = 0
    /\ tb_call.key[1] # tb_call.key[2]
    /\ tb_call.val = tb_call.key[2]

\* the records that a table of attr1 by attr2 files under x
CellRecords(rs, attr1, attr2, x) ==
    {r \in Records(rs) : r[attr1] = x /\ r[attr2] # NA}

\* C15: Table.choose(key) raises EmptyPmfError exactly when the records of
\* key have total weight 0, otherwise it returns the outcome of one of those
\* records; the tables are what construction made them.
C15_ChooseFailsExactlyOnEmptyCell ==
    tb_call.op = "choose" =>
       LET recs == CellRecords(tb_survey, tb_call.table.attr1,
                               tb_call.table.attr2, tb_call.key)
           empty == \A r \in recs : r.compwt = 0
       IN /\ empty <=> tb_call.err = "EmptyPmfError"
          /\ ~empty => /\ tb_call.err = "none"
                       /\ tb_call.val \in {r[tb_call.table.attr2] : r \in recs}
          /\ tb_model2 = TransitionModel2(tb_survey, FALSE)

\* C15 witness: a choose that failed on a cell holding a record of weight 0
\* only
C15_Witness ==
    /\ tb_call.op = "choose"
    /\ tb_call.err = "EmptyPmfError"
    /\ CellRecords(tb_survey, tb_call.table.attr1, tb_call.table.attr2,
                   tb_call.key) # {}

\* the records behind the cell that a generate_spouse or generate_relig
\* call samples
SampledCell ==
    IF tb_call.op = "generate_relig"
    THEN CellRecords(tb_survey, "relig16_name", "relig_name", tb_call.key)
    ELSE IF tb_call.sex = 1
    THEN CellRecords(tb_survey, "parelig_name", "marelig_name", tb_call.key)
    ELSE CellRecords(tb_survey, "marelig_name", "parelig_name", tb_call.key)

\* a generate_spouse or generate_relig call on a cell without observations
SampledEmptyCell ==
    /\ tb_call.op \in {"generate_spouse", "generate_relig"}
    /\ SampledCell = {}

\* C16 as stated: generate_spouse and generate_relig on a cell without
\* observations fail with the error kind of Table.choose, EmptyPmfError.
C16_EmptyCellRaisesEmptyPmfError ==
    SampledEmptyCell => tb_call.err = "EmptyPmfError"

\* C16 amended: generate_spouse and generate_relig on a cell without
\* observations return no value; the failure they pass on is the one of
\* Pmf.Random(), not EmptyPmfError.
C16_EmptyCellFailsInSampling ==
    SampledEmptyCell =>
       /\ tb_call.err \notin {"none", "EmptyPmfError"}
       /\ tb_call.val = NA

\* C16 witness: generate_relig was called on a cell without observations of
\* a Survey that has records
C16_Witness ==
    /\ tb_call.op = "generate_relig"
    /\ SampledCell = {}
    /\ Records(tb_survey) # {}

\* the other decade map of TransitionModel2
OtherMap(attr) == IF attr = "up_tables" THEN "trans_tables" ELSE "up_tables"

\* C17: after extend_tables(attr, source, targets) every target decade
\* refers to the very object the source decade refers to (and shows its
\* content), the decades outside targets keep their objects, no decade
\* besides the targets is added, no Table object is changed, and the other
\* decade map is as it was.
C17_ExtendSharesSourceObject ==
    [][(ex_call'.op = "extend_tables" /\ ex_call'.err = "none") =>
         LET attr == ex_call'.attr
             src == ex_call'.source_year
             dest == ex_call'.dest_years
         IN /\ DOMAIN ex_ids'[attr] = DOMAIN ex_ids[attr] \cup dest
            /\ DOMAIN ex_model'[attr] = DOMAIN ex_ids'[attr]
            /\ \A y \in dest :
                  /\ ex_ids'[attr][y] = ex_ids[attr][src]
                  /\ ex_ids'[attr][y] = ex_ids'[attr][src]
            /\ \A y \in DOMAIN ex_ids[attr] \ dest :
                  ex_ids'[attr][y] = ex_ids[attr][y]
            /\ \A y \in DOMAIN ex_ids'[attr] :
                  ex_model'[attr][y] = ex_objs'[ex_ids'[attr][y]]
            /\ ex_objs' = ex_objs
            /\ ex_ids'[OtherMap(attr)] = ex_ids[OtherMap(attr)]
            /\ ex_model'[OtherMap(attr)] = ex_model[OtherMap(attr)]
            /\ ex_model'.up_table = ex_model.up_table
            /\ ex_model'.trans_table = ex_model.trans_table]_vars

\* C17 witness: a target decade that had a Table of its own, with another
\* content, now refers to the source decade's object
C17_Witness ==
    /\ ex_call.op = "extend_tables"
    /\ ex_call.err = "none"
    /\ \E y \in ex_call.dest_years :
         LET made == TransitionModel2(ex_survey, FALSE)[ex_call.attr]
         IN /\ y # ex_call.source_year
            /\ y \in DOMAIN made
            /\ ex_ids[ex_call.attr][y] = ex_ids[ex_call.attr][ex_call.source_year]
            /\ ex_model[ex_call.attr][y] # made[y]

\* C18: extend_tables with a source decade that has no table fails with a
\* KeyError, and no decade of either map is added or replaced.
C18_MissingSourceFailsWithoutChange ==
    [][(ex_call'.op = "extend_tables"
          /\ ex_call'.source_year \notin DOMAIN ex_ids[ex_call'.attr]) =>
         /\ ex_call'.err = "KeyError"
         /\ ex_ids' = ex_ids
         /\ ex_model' = ex_model
         /\ ex_objs' = ex_objs]_vars

\* C18 witness: extend_tables failed on a map that has tables, with targets
\* given
C18_Witness ==
    /\ ex_call.op = "extend_tables"
    /\ ex_call.err = "KeyError"
    /\ ex_call.dest_years # {}
    /\ DOMAIN ex_ids[ex_call.attr] # {}
    /\ ex_call.dest_years \cap DOMAIN ex_ids[ex_call.attr] # {}

\* the frequency a histogram holds for x, 0 when x was never counted
HistFreq(hist, x) == IF x \in DOMAIN hist THEN hist[x] ELSE 0

\* C19: the histogram of a Table built by cross_tab holds, for every key x,
\* the number of records with attr1 = x and both attributes known, whatever
\* their weights.
C19_CrossTabHistCountsRecords ==
    tb_pc = "built" =>
       \A t \in PooledTables, x \in Names :
          HistFreq(tb_model2[t.name].hist, x)
            = Cardinality(CellRecords(tb_survey, t.attr1, t.attr2, x))

\* the total weight of a set of records
WeightOf(recs) == SumOver([r \in recs |-> r.compwt], recs)

\* a cell as the claim describes it, recs being the records with known
\* attributes filed under the cell's key and attr2 the outcome attribute:
\* only their outcomes are present; with a positive weight the probabilities
\* sum to 1 and each is the outcome's share of the weight; with weight 0 the
\* cell is as the increments left it, of total 0
CellAsStated(cell, recs, attr2) ==
    /\ DOMAIN cell.d = {r[attr2] : r \in recs}
    /\ WeightOf(recs) > 0 =>
          /\ PmfTotalNum(cell) = cell.den
          /\ \A y \in Names :
                REq(PmfProb(cell, y),
                    <<WeightOf({r \in recs : r[attr2] = y}), WeightOf(recs)>>)
    /\ WeightOf(recs) = 0 =>
          /\ PmfTotalNum(cell) = 0
          /\ cell.den = 1

\* C20: in every table built from a Survey (the two of cross_tab, the
\* TransitionTable, the EnvironmentTable, the two of SpouseTable) each cell
\* holds the outcomes of the records with known attributes under its key
\* only, is normalized to the shares of their weight when that weight is
\* positive, and is left with total 0 when it is 0.
C20_CellsNormalizedUnlessEmpty ==
    tb_pc = "built" =>
       /\ \A t \in PooledTables, x \in Names :
             CellAsStated(tb_model2[t.name].table[x],
                          CellRecords(tb_survey, t.attr1, t.attr2, x), t.attr2)
       /\ \A x \in Names :
             /\ CellAsStated(tb_model.trans_table.table[x],
                   CellRecords(tb_survey, "relig16_name", "relig_name", x),
                   "relig_name")
             /\ CellAsStated(tb_model.spouse_table.sp_female[x],
                   CellRecords(tb_survey, "marelig_name", "parelig_name", x),
                   "parelig_name")
             /\ CellAsStated(tb_model.spouse_table.sp_male[x],
                   CellRecords(tb_survey, "parelig_name", "marelig_name", x),
                   "marelig_name")
       /\ \A ma \in Names, pa \in Names :
             CellAsStated(tb_model.env_table.table[<<ma, pa>>],
                          EnvRecords(tb_survey, ma, pa), "relig16_name")

\* C20 witness: the tables of a Survey with a record whose affiliation is
\* unknown; one cell of trans_table was normalized from a total other than 1
\* and another is left with total 0
C20_Witness ==
    /\ tb_pc = "built"
    /\ \E r \in Records(tb_survey) : r.relig_name = NA /\ r.relig16_name # NA
    /\ \E x \in Names :
          /\ tb_model2.trans_table.table[x].den > 1
          /\ PmfTotalNum(tb_model2.trans_table.table[x])
                = tb_model2.trans_table.table[x].den
    /\ \E x \in Names :
          /\ PmfTotalNum(tb_model2.trans_table.table[x]) = 0
          /\ tb_model2.trans_table.table[x].den = 1

\* the outcomes of quantity q over the trials
TrialOutcomes(data, q) == [i \in 1..Len(data) |-> data[i][q]]

\* v is the k-th lowest of the outcomes col, ties counted
KthLowest(col, k, v) ==
    /\ Cardinality({i \in DOMAIN col : col[i] < v}) < k
    /\ Cardinality({i \in DOMAIN col : col[i] <= v}) >= k

\* v is the k-th highest of the outcomes col, ties counted
KthHighest(col, k, v) ==
    /\ Cardinality({i \in DOMAIN col : col[i] > v}) < k
    /\ Cardinality({i \in DOMAIN col : col[i] >= v}) >= k

\* the reorderings of the trials
Reordered(data) ==
    {[i \in 1..Len(data) |-> data[p[i]]] :
       p \in {f \in [1..Len(data) -> 1..Len(data)] :
                \A i, j \in 1..Len(data) : f[i] = f[j] => i = j}}

\* the report the claim describes for the trials in data
ReportAsStated(data, out) ==
    /\ out.err = "none"
    /\ \A q \in Tracked :
         LET col == TrialOutcomes(data, q)
             lo == out.preds[q].span[1]
             hi == out.preds[q].span[2]
         IN /\ REq(out.preds[q].mean, <<SumOver(col, DOMAIN col), Len(data)>>)
            /\ KthLowest(col, 2, lo)
            /\ KthHighest(col, 2, hi)
            /\ Len(data) >= 3 =>
                  /\ lo <= hi
                  /\ \E i, j \in DOMAIN col :
                        /\ i # j
                        /\ KthLowest(col, 1, col[i])
                        /\ KthHighest(col, 1, col[j])
                        /\ \A k \in DOMAIN col \ {i, j} :
                              lo <= col[k] /\ col[k] <= hi
    /\ \A d \in Reordered(data) : extract_predictions(d) = out

\* C21 as stated: for the outcomes of any number of trials (one at least)
\* extract_predictions reports, per quantity, the mean and the span from the
\* 2nd-lowest to the 2nd-highest outcome, whatever the order of the trials;
\* with 3 trials or more the span is ordered and leaves out one extreme at
\* each end.
C21_ReportsMeanAndInnerSpan ==
    (cl_pc = "predictions" /\ Len(cl_in) >= 1) => ReportAsStated(cl_in, cl_out)

\* C21 amended: the report is as stated for 2 trials or more; for one trial
\* extract_predictions fails with an IndexError, and for none it returns an
\* empty list.
C21_ReportsMeanAndInnerSpanOfTwoOrMore ==
    cl_pc = "predictions" =>
       /\ Len(cl_in) >= 2 => ReportAsStated(cl_in, cl_out)
       /\ Len(cl_in) = 1 => cl_out.err = "IndexError"
       /\ Len(cl_in) = 0 => cl_out = [err |-> "none", preds |-> <<>>]

\* C21 witness: three trials with distinct outcomes of a quantity, not in
\* ascending order, were reported
C21_Witness ==
    /\ cl_pc = "predictions"
    /\ Len(cl_in) = 3
    /\ cl_in[1]["prot"] > cl_in[2]["prot"]
    /\ cl_in[2]["prot"] < cl_in[3]["prot"]
    /\ cl_in[1]["prot"] # cl_in[3]["prot"]
    /\ cl_out.err = "none"
    /\ cl_out.preds["prot"].span[1] = cl_out.preds["prot"].span[2]

\* C22: prob(age) returns the hazard yes / (yes + no) of an age that was
\* observed and fails for an age that was never observed.
C22_ProbFailsForUnobservedAge ==
    cl_pc = "prob" =>
       IF cl_in.age \in cl_in.bm.all_ages
       THEN /\ cl_out.err = "none"
            /\ REq(cl_out.val, <<cl_in.bm.yes[cl_in.age], cl_in.bm.obs>>)
       ELSE cl_out.err # "none"

SpouseCellOf(r) ==
    IF r.sex = 1 THEN tm_model.spouse_table.sp_male[r.relig_name]
    ELSE tm_model.spouse_table.sp_female[r.relig_name]

\* the cell is empty, or all its weight is on A
AllWeightOn(cell, A) == \A y \in DOMAIN cell.d : cell.d[y] > 0 => y = A

\* every cell of the spouse, environment and transition tables has all its
\* weight on A
TablesAllOn(A) ==
    /\ \A x \in Names :
          /\ AllWeightOn(tm_model.spouse_table.sp_male[x], A)
          /\ AllWeightOn(tm_model.spouse_table.sp_female[x], A)
          /\ AllWeightOn(tm_model.trans_table.table[x], A)
    /\ \A x \in Names \X Names : AllWeightOn(tm_model.env_table.table[x], A)

\* C24: a child of simulate_transition was raised in a value recorded in
\* the environment cell of a (mother, father) pair its parent can form, or
\* in one of the pair's affiliations when that cell has total 0, and has an
\* affiliation recorded in the transition cell of its upbringing; when every
\* table has all its weight on the parent's affiliation, the child has that
\* upbringing and affiliation.
C24_ChildStaysInSupport ==
    tm_last # NoTransition =>
       LET r == tm_last.parent
           ch == tm_last.child
       IN /\ \E s \in DOMAIN SpouseCellOf(r).d :
               LET ma == IF r.sex = 1 THEN s ELSE r.relig_name
                   pa == IF r.sex = 1 THEN r.relig_name ELSE s
                   ec == tm_model.env_table.table[<<ma, pa>>]
               IN /\ IF PmfTotalNum(ec) # 0
                     THEN ch.relig16_name \in DOMAIN ec.d
                     ELSE ch.relig16_name \in {ma, pa}
                  /\ ch.relig_name
                       \in DOMAIN tm_model.trans_table.table[ch.relig16_name].d
          /\ TablesAllOn(r.relig_name) =>
                /\ ch.relig16_name = r.relig_name
                /\ ch.relig_name = r.relig_name

\* the children of a generation without their identifiers, by parent
ChildrenByParent(gen) ==
    {[c EXCEPT !.caseid = 0] : c \in Records(gen)}

\* C25: an execution of the generation simulation that follows another one
\* in the same process, on the same survey and with the same draws (so that
\* the same children are made of the same parents), produces the same
\* population, the identifiers of the children included.
C25_SecondRunRepeatsIdentifiers ==
    (/\ pc = "simulate"
     /\ prev_run # NoRun
     /\ ChildrenByParent(prev_run.children) = ChildrenByParent(next_gen))
    => prev_run.children = next_gen

\* C26: the subsample of a resampled Survey has as many entries as the
\* Survey has entries that pass the filter, and the parts of its partition
\* have together as many entries as the Survey has entries with a known
\* value of the attribute.
C26_SelectionKeepsEveryEntry ==
    /\ (cl_pc = "selected" /\ cl_out.op = "subsample") =>
         Cardinality(DOMAIN cl_out.out)
           = Cardinality({k \in DOMAIN cl_in : cl_in[k] \in cl_out.kept})
    /\ (cl_pc = "selected" /\ cl_out.op = "partition_by_attr") =>
         SumOver([v \in DOMAIN cl_out.out |-> Cardinality(DOMAIN cl_out.out[v])],
                 DOMAIN cl_out.out)
           = Cardinality({k \in DOMAIN cl_in : cl_in[k][cl_out.attr] # NAyr})

\* C27: simulate_transition leaves the source Survey and the parent
\* population as they were, and the generation it returns has one child per
\* entry of the parent population with a known affiliation.
C27_ParentsKeptOneChildPerEntry ==
    [][/\ tm_survey' = tm_survey
       /\ tm_pc = "simulate_transition" => tm_parents' = tm_parents
       /\ tm_pc' = "returned" =>
             Cardinality(DOMAIN tm_next_gen')
               = Cardinality({k \in DOMAIN tm_parents' :
                                tm_parents'[k].relig_name # NA})]_vars

\* the outcome o is a value of the cell
ChosenFrom(o, cell) == o.err = "none" /\ o.val \in DOMAIN cell.d

\* C28: in per-decade mode, for a decade that has a table,
\* choose_upbringing answers from the decade's cell, from the pooled cell
\* when the decade's cell is empty, and fails with EmptyPmfError only when
\* both are empty; choose_transmission answers from the decade's cell and
\* fails with EmptyPmfError when it is empty, whatever the pooled cell holds.
C28_OnlyUpbringingFallsBack ==
    cl_pc = "chosen" =>
       LET tm == cl_in.tm
           d == Decade(cl_in.yrborn)
           x == cl_in.relig_name
       IN /\ (cl_out.op = "choose_upbringing" /\ d \in DOMAIN tm.up_tables) =>
               IF PmfTotalNum(tm.up_tables[d].table[x]) # 0
               THEN ChosenFrom(cl_out, tm.up_tables[d].table[x])
               ELSE IF PmfTotalNum(tm.up_table.table[x]) # 0
               THEN ChosenFrom(cl_out, tm.up_table.table[x])
               ELSE cl_out.err = "EmptyPmfError"
          /\ (cl_out.op = "choose_transmission" /\ d \in DOMAIN tm.trans_tables) =>
               IF PmfTotalNum(tm.trans_tables[d].table[x]) # 0
               THEN ChosenFrom(cl_out, tm.trans_tables[d].table[x])
               ELSE cl_out.err = "EmptyPmfError"

\* C28 witness: choose_upbringing answered from the pooled table for a
\* decade whose cell is empty
C28_Witness ==
    /\ cl_pc = "chosen"
    /\ cl_out.op = "choose_upbringing"
    /\ Decade(cl_in.yrborn) \in DOMAIN cl_in.tm.up_tables
    /\ PmfTotalNum(cl_in.tm.up_tables[Decade(cl_in.yrborn)].table[cl_in.relig_name]) = 0
    /\ cl_out.err = "none"

\* C29 (as claimed): every entry of a population returned by
\* resample_by_age is a record of the working population, has a known
\* birth year, and has an age in the projected year of positive
\* probability under the target age distribution.
C29_ProjectedAgeHasTargetProbability ==
    (cl_pc = "projected" /\ cl_out.err = "none") =>
       \A i \in DOMAIN cl_out.resample :
          LET r == cl_out.resample[i]
          IN /\ r \in Records(cl_in.g.survey)
             /\ r.yrborn # NAyr
             /\ RPos(PmfProb(cl_in.g.age_pmf, cl_in.predict_year - r.yrborn))

====
